---- MODULE Spec2Model ----
(***************************************************************************)
(* Router Agent of agent-fleet: the LangGraph state machine               *)
(*   validate -> plan -> (approval) -> execute -> analyze -> aggregate    *)
(* with its nodes (src/src/nodes/*.py) and its conditional edges          *)
(* (src/src/agents/router_agent.py).  LLM replies, worker replies and the *)
(* user's approval answers are inputs chosen with \E.                     *)
(***************************************************************************)
EXTENDS Integers, Sequences, FiniteSets, TLC

\* ------------------------------------------------------------- bounds ----
MaxReplans == 1        \* max_replans is drawn from 0..MaxReplans
MaxPlanTasks == 2      \* tasks the planning LLM may return per plan
MaxDeps == 1           \* dependency ids the LLM may give one task
MaxRejections == 1     \* interactive answers other than approval per run
MaxTasks == 3         \* task ids one run may hand out over all its plans

\* The planner is never invoked more often than this within the bounds above;
\* the guard on generate_plan keeps the state space finite.
PlanCap == MaxReplans + MaxRejections + 1

\* ---------------------------------------------------------- constants ----
None == "None"
Modes == {"auto", "interactive", "review"}
Registry == {"quick_agent"}          \* agent ids discovery can return
GhostAgent == "unknown_agent"        \* an agent id that is in no registry
RouterId == "router_id"              \* assistant id of the router's own graph
DanglingId == 0                      \* a dependency id naming no task

ErrTimeout == "Agent execution timed out (5 minutes)"
ErrHTTP == "A2A HTTP error: str(e)"
ErrJSON == "A2A JSON error: str(e)"
ErrCaught == "str(e), e.g. A2A agent returned error: message"
ErrRaised == "str(e)"
ErrDeps == "Dependencies not met"
AgentText == "agent text"

\* RouterState.plan and RouterState.final_response before they are set
\* (Python None), in the shape of the values that replace them.
NoPlan == [tasks |-> <<>>, execution_strategy |-> None, analysis |-> None]
NoResponse == [kind |-> None, reason |-> None, body |-> <<>>, footer |-> <<>>]
\* RouterState.replan_reason is kept as the tuple of the pieces its text is
\* formatted from; None is the empty tuple.
NoReason == <<>>
\* A planning prompt without the replan part (replan_context = "").
NoContext == [included |-> FALSE, reason |-> NoReason, previous |-> <<>>]
\* No reply of the control plane at hand.
NoDiscovery == [kind |-> "none", assistants |-> <<>>]
\* transform_output has not run.
NoOutput == [final_response |-> NoResponse, agents_used |-> <<>>,
             has_agents_used |-> FALSE, execution_strategy |-> None,
             has_execution_strategy |-> FALSE]

\* What one call of _invoke_agent can meet: a reply ("success"), an
\* httpx.TimeoutException ("timeout"), an A2AClientHTTPError ("http_error"),
\* an A2AClientJSONError ("json_error"), any other Exception inside its try
\* block, among them the one it raises for an error reply ("error"), or an
\* exception that escapes the coroutine ("raise").
Outcomes == {"success", "timeout", "http_error", "json_error", "error", "raise"}

VARIABLES
    pc,                 \* node the driver runs next; "end" after END
    mode, max_replans,  \* RouterState configuration, fixed at creation; the
                        \* mode in the compile-time config is the same mode
    messages,           \* RouterState.messages (kinds of the messages)
    is_valid, rejection_reason,
    plan, plan_approved,
    need_replan, replan_reason, replan_count,
    task_results, current_task_index,
    final_response,
    suspended,          \* the run is interrupted inside the approval node
    \* locals of the running execute_tasks call
    epc,                \* "idle", "seq" (in _execute_sequential), "par" (awaiting gather)
    completed_tasks,    \* dict id -> Task, in insertion order
    results,            \* list returned by _execute_sequential/_execute_parallel
    idx,                \* position of the sequential loop
    ready_tasks,        \* ready_tasks of _execute_parallel
    gathered,           \* outcome of each coroutine handed to asyncio.gather
    \* history
    next_id,            \* ids handed out so far (uuid4 gives a fresh id)
    plan_calls,         \* invocations of generate_plan
    rejections,         \* approval answers that were not an approval
    entered,            \* nodes the driver has run
    dispatched,         \* one record per call of _invoke_agent
    prior_results,      \* task_results at the start of the last execute_tasks
    analyze_llm_called, \* the last analyze_results consulted the LLM
    validator_reply,    \* what the validation LLM call yielded; None if not called
    resume_value,       \* value the run was resumed with, until interrupt() returns it
    approved_for,       \* plan_calls of the plan the last approving answer was for
    settled,            \* [id, outcome] of every call of _invoke_agent that ended
    \* locals of the running generate_plan call
    discovery_reply,    \* what the control plane answered, until the plan is returned
    agent_registry,     \* agent ids in the registry of the last discovery
    \* history
    planner_reply,      \* what the last planning LLM call yielded; None if not called
    last_raw_tasks,     \* "tasks" of the reply the last planning LLM call gave
    replan_context,     \* replan part of the prompt of the last planning LLM call
    analyzer_reply,     \* what the last analysis LLM call yielded; None if not called
    final_message,      \* content of the AIMessage built with final_response
    output              \* RouterOutput computed by transform_output

vars == <<pc, mode, max_replans, messages, is_valid, rejection_reason, plan,
          plan_approved, need_replan, replan_reason, replan_count,
          task_results, current_task_index, final_response, suspended,
          epc, completed_tasks, results, idx, ready_tasks, gathered,
          next_id, plan_calls, rejections, entered, dispatched,
          prior_results, analyze_llm_called, validator_reply, resume_value,
          approved_for, settled, discovery_reply, agent_registry,
          planner_reply, last_raw_tasks, replan_context, analyzer_reply,
          final_message, output>>

cfgVars == <<mode, max_replans>>
histVars == <<validator_reply, resume_value, approved_for, settled>>
planVars == <<discovery_reply, agent_registry, planner_reply, last_raw_tasks,
              replan_context>>
auxVars == <<discovery_reply, agent_registry, planner_reply, last_raw_tasks,
             replan_context, analyzer_reply,
             final_message, output>>
execVars == <<epc, completed_tasks, results, idx, ready_tasks, gathered, prior_results>>

\* ------------------------------------------------------ dict helpers ----
\* A Python dict keyed by task id, kept as the sequence of its values in
\* insertion order.
DictHas(d, k) == \E i \in 1..Len(d) : d[i].id = k

DictGet(d, k) == d[CHOOSE i \in 1..Len(d) : d[i].id = k]

DictSet(d, t) ==
    IF DictHas(d, t.id)
    THEN [i \in 1..Len(d) |-> IF d[i].id = t.id THEN t ELSE d[i]]
    ELSE Append(d, t)

RECURSIVE DictFromList(_)
DictFromList(l) ==
    IF l = <<>> THEN <<>>
    ELSE DictSet(DictFromList(SubSeq(l, 1, Len(l) - 1)), l[Len(l)])

\* -------------------------------------------------------------- Init ----
Init ==
    /\ pc = "validate"
    /\ mode \in Modes
    /\ max_replans \in 0..MaxReplans
    /\ messages \in {<<>>, <<"human">>}
    /\ is_valid = FALSE
    /\ rejection_reason = None
    /\ plan = NoPlan
    /\ plan_approved = FALSE
    /\ need_replan = FALSE
    /\ replan_reason = NoReason
    /\ replan_count = 0
    /\ task_results = <<>>
    /\ current_task_index = 0
    /\ final_response = NoResponse
    /\ suspended = FALSE
    /\ epc = "idle"
    /\ completed_tasks = <<>>
    /\ results = <<>>
    /\ idx = 0
    /\ ready_tasks = <<>>
    /\ gathered = <<>>
    /\ next_id = 0
    /\ plan_calls = 0
    /\ rejections = 0
    /\ entered = {}
    /\ dispatched = <<>>
    /\ prior_results = <<>>
    /\ analyze_llm_called = FALSE
    /\ validator_reply = None
    /\ resume_value = None
    /\ approved_for = 0
    /\ settled = {}
    /\ discovery_reply = NoDiscovery
    /\ agent_registry = {}
    /\ planner_reply = None
    /\ last_raw_tasks = <<>>
    /\ replan_context = NoContext
    /\ analyzer_reply = None
    /\ final_message = NoResponse
    /\ output = NoOutput

\* ----------------------------------------------------- conditional edges
route_after_validation_inverted(valid) == IF valid THEN "reject" ELSE "plan"

route_after_validation(valid) == IF valid THEN "plan" ELSE "reject"

route_after_planning_always_approval(m) == "approval"

route_after_planning(m) == IF m = "auto" THEN "execute" ELSE "approval"

route_after_approval_always_execute(approved) == "execute"

route_after_approval(approved) == IF approved THEN "execute" ELSE "plan"

route_after_analysis_always_plan(replan) == "plan"

route_after_analysis(replan) == IF replan THEN "plan" ELSE "aggregate"

\* ---------------------------------------------------------- validate ----
\* What the validation LLM call can yield: a JSON object with is_valid true
\* or false, a JSON object without the key is_valid, JSON that is not an
\* object (.get raises), text that is not JSON (json.loads raises), or an
\* exception of llm.invoke.
ValidatorReplies ==
    {"valid", "invalid", "no_is_valid", "not_object", "not_json", "error"}

ErrValidation == "Validation error: str(e)"
ErrOffTopic == "Off-topic request: reasoning"
ErrNoMessage == "No user message provided"

\* The try block of validate_request and its except branch.
\* validation_result.get("is_valid", False) makes a missing key an invalid
\* request.
ValidationOutcome(llm) ==
    IF llm = "valid"
    THEN [is_valid |-> TRUE, reason |-> None]
    ELSE IF llm \in {"invalid", "no_is_valid"}
    THEN [is_valid |-> FALSE, reason |-> ErrOffTopic]
    ELSE [is_valid |-> FALSE, reason |-> ErrValidation]

validate_request ==
    /\ pc = "validate"
    /\ IF messages = <<>>
       THEN /\ is_valid' = FALSE
            /\ rejection_reason' = ErrNoMessage
            /\ pc' = route_after_validation(FALSE)
            /\ UNCHANGED validator_reply
       ELSE \E llm \in ValidatorReplies :
              LET res == ValidationOutcome(llm)
              IN /\ is_valid' = res.is_valid
                 /\ rejection_reason' = res.reason
                 /\ pc' = route_after_validation(res.is_valid)
                 /\ validator_reply' = llm
    /\ entered' = entered \cup {"validate"}
    /\ UNCHANGED <<cfgVars, messages, plan, plan_approved, need_replan,
                   replan_reason, replan_count, task_results,
                   current_task_index, final_response, suspended, execVars,
                   next_id, plan_calls, rejections, dispatched,
                   analyze_llm_called, resume_value, approved_for, settled,
                   auxVars>>

\* ------------------------------------------------------------ reject ----
\* rejection_message of reject_request: a fixed text around the reason.
RejectionMessage(reason) ==
    [kind |-> "rejection", reason |-> reason, body |-> <<>>, footer |-> <<>>]

\* messages gets [ai_message] through the add_messages reducer, which
\* appends a message that carries no id of a message in the log.
reject_request ==
    /\ pc = "reject"
    /\ final_response' = RejectionMessage(rejection_reason)
    /\ final_message' = RejectionMessage(rejection_reason)
    /\ messages' = Append(messages, "rejection")
    /\ pc' = "end"
    /\ entered' = entered \cup {"reject"}
    /\ UNCHANGED <<cfgVars, is_valid, rejection_reason, plan, plan_approved,
                   need_replan, replan_reason, replan_count, task_results,
                   current_task_index, suspended, execVars, next_id,
                   plan_calls, rejections, dispatched, analyze_llm_called,
                   histVars, planVars, analyzer_reply, output>>

\* -------------------------------------------------------------- plan ----
\* Dependency lists the planning LLM can give: it is told that ids are
\* generated, so it may name any id; ids that matter are those of this plan,
\* those already in task_results, and one that names nothing.
DepCandidates(n) ==
    {DanglingId} \cup (next_id + 1 .. next_id + n)
                 \cup {task_results[i].id : i \in 1..Len(task_results)}

DepSets(n) == {D \in SUBSET DepCandidates(n) : Cardinality(D) <= MaxDeps}

\* Tasks the planning LLM can return: for an agent of the registry with any
\* of the dependency lists, or for an agent id it makes up or for the
\* router's own id (for an id that is not in the registry the dependency
\* list is never looked at).
RawTasks(n, registry) ==
    [agent_id : registry, dependencies : DepSets(n)]
    \cup [agent_id : {GhostAgent, RouterId} \ registry, dependencies : {{}}]

\* the id is made from the position in the reply, not from uuid4
NewTask_position_ids(raw, i) ==
    [id |-> i, agent_id |-> raw.agent_id, status |-> "pending",
     result |-> None, error |-> None, dependencies |-> raw.dependencies]

\* Task(...) as built in generate_plan for the raw task at position i.
NewTask(raw, i) ==
    [id |-> next_id + i, agent_id |-> raw.agent_id, status |-> "pending",
     result |-> None, error |-> None, dependencies |-> raw.dependencies]

\* the check of the agent id left out
AgentKnown_unchecked(agent_id, registry) == TRUE

\* "if agent_id not in agent_registry: continue"
AgentKnown(agent_id, registry) == agent_id \in registry

RECURSIVE BuildTasks(_, _, _)
BuildTasks(raw_tasks, i, registry) ==
    IF i > Len(raw_tasks) THEN <<>>
    ELSE IF AgentKnown(raw_tasks[i].agent_id, registry)
         THEN <<NewTask(raw_tasks[i], i)>> \o BuildTasks(raw_tasks, i + 1, registry)
         ELSE BuildTasks(raw_tasks, i + 1, registry)

\* the no-agents and failure exits return no plan
EmptyPlan_none(why) == NoPlan

EmptyPlan(why) ==
    [tasks |-> <<>>, execution_strategy |-> "sequential", analysis |-> why]

\* -- discovery (utils/discovery.py), awaited first by generate_plan --
\* Assistants the control plane can list, each with what the request for its
\* agent card meets: a card ("ok"), an HTTP status error ("http_status") or
\* any other exception ("error").
RouterAssistant == [assistant_id |-> RouterId, graph_id |-> "router", card |-> "ok"]
SlowAssistants ==
    [assistant_id : {"slow_agent"}, graph_id : {"slow"}, card : {"http_status", "error"}]
QuickAssistant == [assistant_id |-> "quick_agent", graph_id |-> "quick", card |-> "ok"]

\* Search results: any sublist of router, slow, quick in that order.
AssistantLists ==
    {r \o sl \o q :
        r \in {<<>>, <<RouterAssistant>>},
        sl \in {<<>>} \cup {<<a>> : a \in SlowAssistants},
        q \in {<<>>, <<QuickAssistant>>}}

\* What the search request can meet: an httpx.HTTPError (connection refused,
\* timeout, non-2xx status), a list of assistants, or a 2xx reply whose body
\* response.json() cannot read.
DiscoveryReplies ==
    {[kind |-> "unreachable", assistants |-> <<>>]}
    \cup [kind : {"list"}, assistants : AssistantLists]
UnreadableReply == [kind |-> "unreadable", assistants |-> <<>>]

\* every listed assistant counts as a subordinate
_is_subordinate_agent_any(graph_id) == TRUE

_is_subordinate_agent(graph_id) == graph_id # "router"

\* TRUE iff _fetch_agent_card returns a card; both except branches return None.
_fetch_agent_card(assistant) == assistant.card = "ok"

RECURSIVE _build_agent_registry(_)
_build_agent_registry(assistants) ==
    IF assistants = <<>> THEN {}
    ELSE LET assistant == assistants[Len(assistants)]
             before == _build_agent_registry(SubSeq(assistants, 1, Len(assistants) - 1))
         IN  IF ~_is_subordinate_agent(assistant.graph_id) THEN before
             ELSE IF ~_fetch_agent_card(assistant) THEN before
             ELSE before \cup {assistant.assistant_id}

\* The try block of discover_agents_from_langgraph and its
\* "except httpx.HTTPError: return {}".
discover_agents_from_langgraph(reply) ==
    IF reply.kind = "unreachable" THEN {}
    ELSE _build_agent_registry(reply.assistants)

\* generate_plan up to the return of "await discover_agents_from_langgraph()".
discover_agents ==
    /\ pc = "plan"
    /\ discovery_reply = NoDiscovery
    /\ plan_calls < PlanCap
    /\ \E reply \in DiscoveryReplies :
         /\ discovery_reply' = reply
         /\ agent_registry' = discover_agents_from_langgraph(reply)
    /\ UNCHANGED <<pc, cfgVars, messages, is_valid, rejection_reason, plan,
                   plan_approved, need_replan, replan_reason, replan_count,
                   task_results, current_task_index, final_response, suspended,
                   execVars, next_id, plan_calls, rejections, entered,
                   dispatched, analyze_llm_called, histVars, planner_reply,
                   last_raw_tasks, replan_context,
                   analyzer_reply, final_message, output>>

\* The body of the search reply is not JSON: response.json() raises a
\* ValueError, which is no httpx.HTTPError; it leaves
\* discover_agents_from_langgraph and generate_plan, whose try block starts
\* after the discovery call, and the run fails.
discover_agents_raises ==
    /\ pc = "plan"
    /\ discovery_reply = NoDiscovery
    /\ plan_calls < PlanCap
    /\ discovery_reply' = UnreadableReply
    /\ pc' = "failed"
    /\ UNCHANGED <<cfgVars, messages, is_valid, rejection_reason, plan,
                   plan_approved, need_replan, replan_reason, replan_count,
                   task_results, current_task_index, final_response, suspended,
                   execVars, next_id, plan_calls, rejections, entered,
                   dispatched, analyze_llm_called, histVars, agent_registry,
                   planner_reply, last_raw_tasks, replan_context, analyzer_reply,
                   final_message, output>>

\* -- the rest of generate_plan --
\* What the planning LLM call can yield: a JSON object ("ok"), text that
\* json.loads cannot read, among it JSON inside a code fence or after prose
\* ("invalid_json"), or an exception of llm.ainvoke or of the code that
\* reads the parsed reply ("error").
PlannerFailures == {"invalid_json", "error"}

\* the except branches keep the plan the state already holds
PlanOnFailure_keeps_plan(llm) == plan

\* "except json.JSONDecodeError" and "except Exception" of generate_plan.
PlanOnFailure(llm) ==
    EmptyPlan(IF llm = "invalid_json"
              THEN "Planning failed: Invalid JSON response from LLM"
              ELSE "Planning failed: str(e)")

MsgNoAgents == "No agents available to handle this request"

\* One entry of results_summary: the agent, the status and the result of a
\* previous task (the description is not modelled; the error is not among
\* the lines written).
SummaryLine(task) ==
    [agent_id |-> task.agent_id, status |-> task.status, result |-> task.result]

\* replan_context of the planning prompt: filled from replan_reason and
\* task_results "if state.get("replan_count", 0) > 0", else empty.
ReplanContext(count, reason, previous_results) ==
    IF count > 0
    THEN [included |-> TRUE, reason |-> reason,
          previous |-> [i \in 1..Len(previous_results) |->
                           SummaryLine(previous_results[i])]]
    ELSE NoContext

generate_plan ==
    /\ pc = "plan"
    /\ discovery_reply # NoDiscovery
    /\ plan_calls < PlanCap
    /\ IF agent_registry = {}
       THEN /\ plan' = EmptyPlan(MsgNoAgents)
            /\ next_id' = next_id
            /\ planner_reply' = None
            /\ last_raw_tasks' = <<>>
            /\ replan_context' = NoContext
       ELSE /\ replan_context' =
                 ReplanContext(replan_count, replan_reason, task_results)
            /\ \/ \E llm \in PlannerFailures :
                    /\ plan' = PlanOnFailure(llm)
                    /\ planner_reply' = llm
                    /\ last_raw_tasks' = <<>>
                    /\ next_id' = next_id
               \/ \E strategy \in {"parallel", "sequential"}, n \in 0..MaxPlanTasks :
                    /\ next_id + n <= MaxTasks
                    /\ \E raw \in [1..n -> RawTasks(n, agent_registry)] :
                         /\ plan' = [tasks |-> BuildTasks(raw, 1, agent_registry),
                                     execution_strategy |-> strategy,
                                     analysis |-> "analysis"]
                         /\ last_raw_tasks' = raw
                         /\ next_id' = next_id + n
                    /\ planner_reply' = "ok"
    /\ discovery_reply' = NoDiscovery
    /\ need_replan' = FALSE
    /\ plan_calls' = plan_calls + 1
    /\ pc' = route_after_planning(mode)
    /\ entered' = entered \cup {"plan"}
    /\ UNCHANGED <<cfgVars, messages, is_valid, rejection_reason,
                   plan_approved, replan_reason, replan_count, task_results,
                   current_task_index, final_response, suspended, execVars,
                   rejections, dispatched, analyze_llm_called, histVars,
                   agent_registry, analyzer_reply, final_message, output>>

\* ---------------------------------------------------------- approval ----
\* Resume payloads and str(user_response).lower().strip() on them.
Answers == {"yes", " Approved ", "no", " N ", "use two agents"}

\* str(user_response) used as it is, neither lowered nor stripped
LowerStrip_identity(a) == a

LowerStrip(a) ==
    CASE a = " Approved " -> "approved"
      [] a = " N " -> "n"
      [] OTHER -> a

ApproveWords == {"yes", "y", "approve", "approved"}
RejectWords == {"no", "n", "reject", "rejected"}

MsgReviewApproved == "plan summary, approved (review mode)"

\* the gate asking for an answer in review mode as it does in interactive mode
GateOutcome_review_interrupts(p, m) ==
    IF p = NoPlan
    THEN [interrupt |-> FALSE, approved |-> FALSE,
          msg |-> "Error: No plan was generated to approve"]
    ELSE IF m \in {"review", "interactive"}
    THEN [interrupt |-> TRUE, approved |-> FALSE, msg |-> None]
    ELSE [interrupt |-> FALSE, approved |-> TRUE,
          msg |-> "plan auto-approved (auto mode)"]

\* What await_approval does when it runs for plan p in mode m without a
\* resume value: the update it returns, or the interrupt it raises.
GateOutcome(p, m) ==
    IF p = NoPlan
    THEN [interrupt |-> FALSE, approved |-> FALSE,
          msg |-> "Error: No plan was generated to approve"]
    ELSE IF m = "review"
    THEN [interrupt |-> FALSE, approved |-> TRUE, msg |-> MsgReviewApproved]
    ELSE IF m = "interactive"
    THEN [interrupt |-> TRUE, approved |-> FALSE, msg |-> None]
    ELSE [interrupt |-> FALSE, approved |-> TRUE,
          msg |-> "plan auto-approved (auto mode)"]

\* First run of the node for a plan.  In interactive mode interrupt() raises
\* and the run is suspended with no state update.
await_approval ==
    /\ pc = "approval"
    /\ ~suspended
    /\ entered' = entered \cup {"approval"}
    /\ LET out == GateOutcome(plan, mode)
       IN IF out.interrupt
          THEN /\ suspended' = TRUE
               /\ UNCHANGED <<plan_approved, messages, pc>>
          ELSE /\ plan_approved' = out.approved
               /\ messages' = Append(messages, out.msg)
               /\ pc' = route_after_approval(out.approved)
               /\ UNCHANGED suspended
    /\ UNCHANGED <<cfgVars, is_valid, rejection_reason, plan, need_replan,
                   replan_reason, replan_count, task_results,
                   current_task_index, final_response, execVars, next_id,
                   plan_calls, rejections, dispatched, analyze_llm_called,
                   histVars,
                   auxVars>>

\* The caller resumes the suspended run with the user's answer.
resume_run ==
    /\ pc = "approval"
    /\ suspended
    /\ resume_value = None
    /\ \E answer \in Answers :
         /\ LowerStrip(answer) \in ApproveWords \/ rejections < MaxRejections
         /\ resume_value' = answer
    /\ UNCHANGED <<pc, cfgVars, messages, is_valid, rejection_reason, plan,
                   plan_approved, need_replan, replan_reason, replan_count,
                   task_results, current_task_index, final_response,
                   suspended, execVars, next_id, plan_calls, rejections,
                   entered, dispatched, analyze_llm_called, validator_reply,
                   approved_for, settled,
                   auxVars>>

\* The node runs again, interrupt() returns the answer and the node returns
\* its update.
resume_approval ==
    /\ pc = "approval"
    /\ suspended
    /\ resume_value # None
    /\ LET user_response == resume_value
           response_lower == LowerStrip(user_response)
       IN IF response_lower \in ApproveWords
          THEN /\ plan_approved' = TRUE
               /\ messages' = Append(messages, "plan approved")
               /\ pc' = route_after_approval(TRUE)
               /\ approved_for' = plan_calls
               /\ UNCHANGED <<need_replan, replan_reason, rejections>>
          ELSE /\ plan_approved' = FALSE
               /\ need_replan' = TRUE
               /\ replan_reason' =
                     IF response_lower \in RejectWords
                     THEN <<"User rejected the plan">>
                     ELSE <<"User requested modifications: ", user_response>>
               /\ messages' = Append(messages,
                     IF response_lower \in RejectWords
                     THEN "plan rejected" ELSE "plan to be revised")
               /\ pc' = route_after_approval(FALSE)
               /\ rejections' = rejections + 1
               /\ UNCHANGED approved_for
    /\ suspended' = FALSE
    /\ resume_value' = None
    /\ UNCHANGED <<cfgVars, is_valid, rejection_reason, plan, replan_count,
                   task_results, current_task_index, final_response, execVars,
                   next_id, plan_calls, entered, dispatched,
                   analyze_llm_called, validator_reply, settled,
                   auxVars>>

\* ----------------------------------------------------------- execute ----
\* _are_dependencies_met without the check of the dependency's status
_are_dependencies_met_presence_only(task, completed) ==
    IF task.dependencies = {} THEN TRUE
    ELSE \A dep_id \in task.dependencies : DictHas(completed, dep_id)

\* _are_dependencies_met
_are_dependencies_met(task, completed) ==
    IF task.dependencies = {} THEN TRUE
    ELSE \A dep_id \in task.dependencies :
            /\ DictHas(completed, dep_id)
            /\ DictGet(completed, dep_id).status = "completed"

\* task.copy() with status "failed" and the given error, as in the
\* "except"/isinstance(result, Exception) branches of the two strategies.
FailedCopy(task, err) == [task EXCEPT !.status = "failed", !.error = err]

\* failed_task["error"] of the except clause that catches outcome o
InvokeError(o) ==
    CASE o = "timeout" -> ErrTimeout
      [] o = "http_error" -> ErrHTTP
      [] o = "json_error" -> ErrJSON
      [] OTHER -> ErrCaught

\* _invoke_agent whose except branches set the error but not the status
_invoke_agent_status_not_set(task, o) ==
    IF o = "success"
    THEN [task EXCEPT !.status = "completed", !.result = AgentText, !.error = None]
    ELSE [task EXCEPT !.result = None, !.error = InvokeError(o)]

\* _invoke_agent without the except clause for httpx.TimeoutException: the
\* timeout is caught as any other Exception, whose text is empty
_invoke_agent_timeout_not_told(task, o) ==
    IF o = "success"
    THEN [task EXCEPT !.status = "completed", !.result = AgentText, !.error = None]
    ELSE [task EXCEPT !.status = "failed", !.result = None,
                      !.error = IF o = "timeout" THEN None ELSE InvokeError(o)]

\* Task returned by _invoke_agent when the call meets outcome o (o # "raise").
_invoke_agent(task, o) ==
    IF o = "success"
    THEN [task EXCEPT !.status = "completed", !.result = AgentText, !.error = None]
    ELSE [task EXCEPT !.status = "failed", !.result = None,
                      !.error = InvokeError(o)]

\* every task that has not run yet is ready, whatever its dependencies
ReadyTasks_ignores_dependencies(tasks, completed) ==
    LET Ready(task) == ~DictHas(completed, task.id)
    IN SelectSeq(tasks, Ready)

\* ready_tasks of _execute_parallel
ReadyTasks(tasks, completed) ==
    LET Ready(task) == /\ ~DictHas(completed, task.id)
                       /\ _are_dependencies_met(task, completed)
    IN SelectSeq(tasks, Ready)

\* Whether every dependency of task is in the map with status completed,
\* stated on its own for the dispatch record.
DepsCompletedIn(task, completed) ==
    \A d \in task.dependencies :
        \E i \in 1..Len(completed) :
            completed[i].id = d /\ completed[i].status = "completed"

DispatchRecord(task, completed) ==
    [id |-> task.id, deps_ok |-> DepsCompletedIn(task, completed)]

\* How the call of _invoke_agent for task ended.
SettleRecord(task, o) == [id |-> task.id, outcome |-> o]

\* the map starts empty at every Execute
CompletedAtStart_empty(previous) == <<>>

\* completed_tasks = {task["id"]: task for task in state.get("task_results", [])}
CompletedAtStart(previous) == DictFromList(previous)

\* the sequential loop keeps the result but does not put it in the map
RecordResult_not_recorded(completed, result) == completed

\* completed_tasks[result["id"]] = result in the loop of _execute_sequential
RecordResult(completed, result) == DictSet(completed, result)

\* the wait ends as soon as one coroutine has finished
AllSettled_first_completed(outs) ==
    \E i \in 1..Len(outs) : outs[i] # "pending"

\* "await asyncio.gather(*task_coroutines, return_exceptions=True)" returns
\* when every coroutine has finished.
AllSettled(outs) == \A i \in 1..Len(outs) : outs[i] # "pending"

\* execute_tasks up to its first await: builds completed_tasks and enters
\* the strategy; the parallel strategy creates one coroutine per ready task.
execute_tasks ==
    /\ pc = "execute"
    /\ epc = "idle"
    /\ entered' = entered \cup {"execute"}
    /\ prior_results' = task_results
    /\ results' = <<>>
    /\ IF plan = NoPlan
       THEN /\ task_results' = <<>>
            /\ current_task_index' = 0
            /\ pc' = "analyze"
            /\ UNCHANGED <<epc, completed_tasks, idx, ready_tasks, gathered,
                           dispatched>>
       ELSE LET completed == CompletedAtStart(task_results) IN
            /\ completed_tasks' = completed
            /\ IF plan.execution_strategy = "parallel"
               THEN LET ready == ReadyTasks(plan.tasks, completed) IN
                    /\ epc' = "par"
                    /\ ready_tasks' = ready
                    /\ gathered' = [i \in 1..Len(ready) |-> "pending"]
                    /\ dispatched' = dispatched \o
                          [i \in 1..Len(ready) |-> DispatchRecord(ready[i], completed)]
                    /\ idx' = 0
               ELSE /\ epc' = "seq"
                    /\ idx' = 1
                    /\ ready_tasks' = <<>>
                    /\ gathered' = <<>>
                    /\ UNCHANGED dispatched
            /\ UNCHANGED <<task_results, current_task_index, pc>>
    /\ UNCHANGED <<cfgVars, messages, is_valid, rejection_reason, plan,
                   plan_approved, need_replan, replan_reason, replan_count,
                   final_response, suspended, next_id, plan_calls, rejections,
                   analyze_llm_called, histVars,
                   auxVars>>

\* Position the loop of _execute_sequential takes up after the task at
\* position i gave result: the next one, whatever the result (the "stop on
\* first failure" break is commented out in the source).
AfterTask_stop_on_failure(i, result, n) ==
    IF result.status = "failed" THEN n + 1 ELSE i + 1

AfterTask(i, result, n) == i + 1

\* One iteration of the loop of _execute_sequential.
sequential_step ==
    /\ epc = "seq"
    /\ idx <= Len(plan.tasks)
    /\ LET task == plan.tasks[idx]
           n == Len(plan.tasks)
       IN
       IF DictHas(completed_tasks, task.id)
       THEN /\ idx' = idx + 1
            /\ UNCHANGED <<results, completed_tasks, dispatched, settled>>
       ELSE \/ /\ ~_are_dependencies_met(task, completed_tasks)
               /\ results' = Append(results, FailedCopy(task, ErrDeps))
               /\ idx' = idx + 1
               /\ UNCHANGED <<completed_tasks, dispatched, settled>>
            \/ /\ _are_dependencies_met(task, completed_tasks)
               /\ dispatched' = Append(dispatched, DispatchRecord(task, completed_tasks))
               /\ \E o \in Outcomes :
                    LET result == IF o = "raise" THEN FailedCopy(task, ErrRaised)
                                  ELSE _invoke_agent(task, o)
                    IN /\ results' = Append(results, result)
                       /\ completed_tasks' = RecordResult(completed_tasks, result)
                       /\ idx' = AfterTask(idx, result, n)
                       /\ settled' = settled \cup {SettleRecord(task, o)}
    /\ UNCHANGED <<pc, cfgVars, messages, is_valid, rejection_reason, plan,
                   plan_approved, need_replan, replan_reason, replan_count,
                   task_results, current_task_index, final_response,
                   suspended, epc, ready_tasks, gathered, prior_results,
                   next_id, plan_calls, rejections, entered,
                   analyze_llm_called, validator_reply, resume_value,
                   approved_for,
                   auxVars>>

\* One coroutine of the parallel batch finishes.
parallel_settle ==
    /\ epc = "par"
    /\ \E i \in 1..Len(gathered), o \in Outcomes :
         /\ gathered[i] = "pending"
         /\ gathered' = [gathered EXCEPT ![i] = o]
         /\ settled' = settled \cup {SettleRecord(ready_tasks[i], o)}
    /\ UNCHANGED <<pc, cfgVars, messages, is_valid, rejection_reason, plan,
                   plan_approved, need_replan, replan_reason, replan_count,
                   task_results, current_task_index, final_response,
                   suspended, epc, completed_tasks, results, idx, ready_tasks,
                   prior_results, next_id, plan_calls, rejections, entered,
                   dispatched, analyze_llm_called, validator_reply,
                   resume_value, approved_for,
                   auxVars>>

\* "Process results" loop of _execute_parallel from position i on:
\* <<results, completed_tasks>> after it.
RECURSIVE ProcessGathered(_, _, _, _, _)
ProcessGathered(ready, outs, i, res, completed) ==
    IF i > Len(ready) THEN <<res, completed>>
    ELSE IF outs[i] = "raise"
         THEN ProcessGathered(ready, outs, i + 1,
                              Append(res, FailedCopy(ready[i], ErrRaised)), completed)
         ELSE LET result == _invoke_agent(ready[i], outs[i]) IN
              ProcessGathered(ready, outs, i + 1, Append(res, result),
                              DictSet(completed, result))

\* The strategy function returns and execute_tasks returns its update.
execute_return ==
    /\ \/ epc = "seq" /\ idx > Len(plan.tasks)
       \/ epc = "par" /\ AllSettled(gathered)
    /\ LET done == IF epc = "par"
                   THEN ProcessGathered(ready_tasks, gathered, 1, <<>>, completed_tasks)
                   ELSE <<results, completed_tasks>>
           all_results == done[2]
       IN /\ results' = done[1]
          /\ completed_tasks' = all_results
          /\ task_results' = all_results
          /\ current_task_index' = Len(all_results)
    /\ epc' = "idle"
    /\ idx' = 0
    /\ ready_tasks' = <<>>
    /\ gathered' = <<>>
    /\ pc' = "analyze"
    /\ UNCHANGED <<cfgVars, messages, is_valid, rejection_reason, plan,
                   plan_approved, need_replan, replan_reason, replan_count,
                   final_response, suspended, prior_results, next_id,
                   plan_calls, rejections, entered, dispatched,
                   analyze_llm_called, histVars,
                   auxVars>>

\* The run is cancelled while execute_tasks awaits a worker: CancelledError
\* is raised at the await.  It is a BaseException, so neither the except
\* clauses of _invoke_agent nor those of the strategies catch it; the
\* coroutines in flight end with it, execute_tasks returns no update and
\* the run is over.
cancel_run ==
    /\ \/ /\ epc = "par"
          /\ \E i \in 1..Len(gathered) : gathered[i] = "pending"
          /\ gathered' = [i \in 1..Len(gathered) |->
                            IF gathered[i] = "pending" THEN "cancelled"
                            ELSE gathered[i]]
          /\ settled' = settled \cup
                {SettleRecord(ready_tasks[i], "cancelled") :
                    i \in {j \in 1..Len(gathered) : gathered[j] = "pending"}}
          /\ UNCHANGED dispatched
       \/ /\ epc = "seq"
          /\ idx <= Len(plan.tasks)
          /\ ~DictHas(completed_tasks, plan.tasks[idx].id)
          /\ _are_dependencies_met(plan.tasks[idx], completed_tasks)
          /\ dispatched' = Append(dispatched,
                                  DispatchRecord(plan.tasks[idx], completed_tasks))
          /\ settled' = settled \cup {SettleRecord(plan.tasks[idx], "cancelled")}
          /\ UNCHANGED gathered
    /\ epc' = "idle"
    /\ pc' = "cancelled"
    /\ UNCHANGED <<cfgVars, messages, is_valid, rejection_reason, plan,
                   plan_approved, need_replan, replan_reason, replan_count,
                   task_results, current_task_index, final_response,
                   suspended, completed_tasks, results, idx, ready_tasks,
                   prior_results, next_id, plan_calls, rejections, entered,
                   analyze_llm_called, validator_reply, resume_value,
                   approved_for,
                   auxVars>>

\* ----------------------------------------------------------- analyze ----
\* the check with the comparison off by one, and with the check left out
MaxReplansReached_off_by_one(count, maximum) == count > maximum

MaxReplansReached_never(count, maximum) == FALSE

\* "if replan_count >= max_replans"
MaxReplansReached(count, maximum) == count >= maximum

\* What the analysis LLM call can yield: a JSON object with is_sufficient
\* true, with is_sufficient false and a replan_strategy, with is_sufficient
\* false and no (or a null or empty) replan_strategy, a JSON object without
\* the key is_sufficient, text that json.loads cannot read, or an exception
\* of llm.invoke or of the code that reads the parsed reply.
AnalyzerReplies ==
    {"sufficient", "insufficient", "insufficient_no_strategy", "no_field",
     "invalid_json", "error"}
AnalyzerFailures == {"invalid_json", "error"}

\* analysis_result.get("is_sufficient", False)
IsSufficient_default_false(llm) == llm = "sufficient"

\* analysis_result.get("is_sufficient", True)
IsSufficient(llm) == llm \in {"sufficient", "no_field"}

\* the reason is always the reasoning
ReplanReason_reasoning_only(llm) == <<"reasoning">>

\* "replan_strategy or reasoning"
ReplanReason(llm) ==
    IF llm = "insufficient" THEN <<"replan_strategy">> ELSE <<"reasoning">>

\* The try block of analyze_results and its two except branches, both of
\* which return need_replan False and no replan_count.
AnalysisOutcome(llm, count) ==
    IF llm \notin AnalyzerFailures /\ ~IsSufficient(llm)
    THEN [need_replan |-> TRUE, replan_reason |-> ReplanReason(llm),
          replan_count |-> count + 1]
    ELSE [need_replan |-> FALSE, replan_reason |-> NoReason,
          replan_count |-> count]

analyze_results ==
    /\ pc = "analyze"
    /\ entered' = entered \cup {"analyze"}
    /\ IF MaxReplansReached(replan_count, max_replans)
       THEN /\ need_replan' = FALSE
            /\ replan_reason' = NoReason
            /\ analyze_llm_called' = FALSE
            /\ analyzer_reply' = None
            /\ UNCHANGED replan_count
       ELSE /\ analyze_llm_called' = TRUE
            /\ \E llm \in AnalyzerReplies :
                 /\ analyzer_reply' = llm
                 /\ need_replan' = AnalysisOutcome(llm, replan_count).need_replan
                 /\ replan_reason' = AnalysisOutcome(llm, replan_count).replan_reason
                 /\ replan_count' = AnalysisOutcome(llm, replan_count).replan_count
    /\ pc' = route_after_analysis(need_replan')
    /\ UNCHANGED <<cfgVars, messages, is_valid, rejection_reason, plan,
                   plan_approved, task_results, current_task_index,
                   final_response, suspended, execVars, next_id, plan_calls,
                   rejections, dispatched, histVars, planVars, final_message,
                   output>>

\* --------------------------------------------------------- aggregate ----
CountStatus(tasks, st) ==
    Cardinality({i \in 1..Len(tasks) : tasks[i].status = st})

\* What the artifact holds for each task of task_results, in their order:
\* results_summary in the prompt the LLM writes from, the "## idx.
\* description" sections in the fallback. The task's id stands for its
\* description.
TaskSections(tasks) ==
    [i \in 1..Len(tasks) |->
        [id |-> tasks[i].id,
         text |-> IF tasks[i].status = "completed"
                  THEN tasks[i].result ELSE tasks[i].error,
         failed |-> tasks[i].status # "completed"]]

\* aggregate_results without its except branch
AggregateOutput_no_fallback(llm, tasks) ==
    IF llm = "ok"
    THEN [kind |-> "llm", reason |-> None,
          body |-> TaskSections(tasks),
          footer |-> IF CountStatus(tasks, "failed") > 0
                     THEN <<"tasks encountered errors",
                            CountStatus(tasks, "failed"), Len(tasks)>>
                     ELSE <<>>]
    ELSE NoResponse

\* the fallback is the heading and the footer only
AggregateOutput_fallback_no_sections(llm, tasks) ==
    LET completed_count == CountStatus(tasks, "completed")
        failed_count == CountStatus(tasks, "failed")
    IN IF llm = "ok"
       THEN [kind |-> "llm", reason |-> None,
             body |-> TaskSections(tasks),
             footer |-> IF failed_count > 0
                        THEN <<"tasks encountered errors", failed_count,
                               Len(tasks)>>
                        ELSE <<>>]
       ELSE [kind |-> "fallback", reason |-> None,
             body |-> <<>>,
             footer |-> <<"successful tasks", completed_count, Len(tasks)>>]

\* final_response of aggregate_results: the LLM's text with the footer for
\* failures, or the fallback_response of the except branch.
AggregateOutput(llm, tasks) ==
    LET completed_count == CountStatus(tasks, "completed")
        failed_count == CountStatus(tasks, "failed")
    IN IF llm = "ok"
       THEN [kind |-> "llm", reason |-> None,
             body |-> TaskSections(tasks),
             footer |-> IF failed_count > 0
                        THEN <<"tasks encountered errors", failed_count,
                               Len(tasks)>>
                        ELSE <<>>]
       ELSE [kind |-> "fallback", reason |-> None,
             body |-> TaskSections(tasks),
             footer |-> <<"successful tasks", completed_count, Len(tasks)>>]

\* the AIMessage is built from the LLM's text before the footer is added
AggregateMessage_before_footer(llm, tasks) ==
    [AggregateOutput(llm, tasks) EXCEPT
        !.footer = IF llm = "ok" THEN <<>> ELSE @]

\* content of the AIMessage of aggregate_results: AIMessage(content=
\* final_response) after the footer is added, AIMessage(content=
\* fallback_response) in the except branch.
AggregateMessage(llm, tasks) == AggregateOutput(llm, tasks)

\* llm: whether the aggregation LLM call returns or raises.
aggregate_results ==
    /\ pc = "aggregate"
    /\ entered' = entered \cup {"aggregate"}
    /\ \E llm \in {"ok", "error"} :
         /\ final_response' = AggregateOutput(llm, task_results)
         /\ final_message' = AggregateMessage(llm, task_results)
    /\ messages' = Append(messages, final_message'.kind)
    /\ pc' = "end"
    /\ UNCHANGED <<cfgVars, is_valid, rejection_reason, plan, plan_approved,
                   need_replan, replan_reason, replan_count, task_results,
                   current_task_index, suspended, execVars, next_id,
                   plan_calls, rejections, dispatched, analyze_llm_called,
                   histVars, planVars, analyzer_reply, output>>

\* --------------------------------------------------------- transform ----
\* transform_output (nodes/transform.py) maps a final RouterState to the
\* RouterOutput handed to the client. Worker names, in the order sorted()
\* gives them.
NameOrder == <<"Coda", "Quick Agent", "Zeta">>
Names == {NameOrder[i] : i \in 1..Len(NameOrder)}
Rank(name) == CHOOSE i \in 1..Len(NameOrder) : NameOrder[i] = name

\* set(task["agent_name"] for task in task_results
\*     if task.get("status") == "completed")
CompletedNames(tasks) ==
    {tasks[i].agent_name : i \in {j \in 1..Len(tasks) : tasks[j].status = "completed"}}

\* sorted(agents_used)
RECURSIVE Sorted(_)
Sorted(S) ==
    IF S = {} THEN <<>>
    ELSE LET least == CHOOSE x \in S : \A y \in S : Rank(x) <= Rank(y)
         IN  <<least>> \o Sorted(S \ {least})

\* the names of the completed tasks as they come, neither deduplicated nor
\* sorted
RECURSIVE AgentsUsed_as_listed(_)
AgentsUsed_as_listed(tasks) ==
    IF tasks = <<>> THEN <<>>
    ELSE (IF tasks[1].status = "completed" THEN <<tasks[1].agent_name>> ELSE <<>>)
         \o AgentsUsed_as_listed(Tail(tasks))

AgentsUsed(tasks) == Sorted(CompletedNames(tasks))

\* "if state.get("plan")"
HasStrategy(p, tasks) == p # NoPlan

transform_output ==
    /\ pc = "transform_output"
    /\ output' =
         [final_response |-> final_response,
          agents_used |-> IF task_results # <<>> THEN AgentsUsed(task_results)
                          ELSE <<>>,
          has_agents_used |-> task_results # <<>>
                              /\ AgentsUsed(task_results) # <<>>,
          execution_strategy |-> IF HasStrategy(plan, task_results)
                                 THEN plan.execution_strategy ELSE None,
          has_execution_strategy |-> HasStrategy(plan, task_results)]
    /\ pc' = "end"
    /\ UNCHANGED <<cfgVars, messages, is_valid, rejection_reason, plan,
                   plan_approved, need_replan, replan_reason, replan_count,
                   task_results, current_task_index, final_response, suspended,
                   execVars, next_id, plan_calls, rejections, entered,
                   dispatched, analyze_llm_called, histVars, planVars,
                   analyzer_reply, final_message>>

\* Final states transform_output can be given: any task_results of up to
\* MaxTasks tasks by workers of Names, with or without a plan.
TransformTasks == [agent_name : Names, status : {"completed", "failed"}]

TransformInit ==
    /\ pc = "transform_output"
    /\ mode \in Modes
    /\ max_replans = 0
    /\ messages = <<"human">>
    /\ is_valid \in BOOLEAN
    /\ rejection_reason = None
    /\ plan \in {NoPlan}
                \cup [tasks : {<<>>}, execution_strategy : {"parallel", "sequential"},
                      analysis : {"analysis"}]
    /\ plan_approved = FALSE
    /\ need_replan = FALSE
    /\ replan_reason = NoReason
    /\ replan_count = 0
    /\ \E n \in 0..MaxTasks : task_results \in [1..n -> TransformTasks]
    /\ current_task_index = 0
    /\ final_response = NoResponse
    /\ suspended = FALSE
    /\ epc = "idle"
    /\ completed_tasks = <<>>
    /\ results = <<>>
    /\ idx = 0
    /\ ready_tasks = <<>>
    /\ gathered = <<>>
    /\ next_id = 0
    /\ plan_calls = 0
    /\ rejections = 0
    /\ entered = {}
    /\ dispatched = <<>>
    /\ prior_results = <<>>
    /\ analyze_llm_called = FALSE
    /\ validator_reply = None
    /\ resume_value = None
    /\ approved_for = 0
    /\ settled = {}
    /\ discovery_reply = NoDiscovery
    /\ agent_registry = {}
    /\ planner_reply = None
    /\ last_raw_tasks = <<>>
    /\ replan_context = NoContext
    /\ analyzer_reply = None
    /\ final_message = NoResponse
    /\ output = NoOutput

TransformSpec == TransformInit /\ [][transform_output]_vars

Next ==
    \/ validate_request
    \/ reject_request
    \/ discover_agents
    \/ generate_plan
    \/ await_approval
    \/ resume_run
    \/ resume_approval
    \/ execute_tasks
    \/ sequential_step
    \/ parallel_settle
    \/ execute_return
    \/ analyze_results
    \/ aggregate_results

Spec == Init /\ [][Next]_vars

\* Runs that may also be cancelled from outside while Execute awaits.
NextCancel == Next \/ cancel_run

CancelSpec == Init /\ [][NextCancel]_vars

\* The conditional edge after analyse, for any update an Analyser can hand
\* to the driver: the driver takes the node's update as it is and then
\* evaluates route_after_analysis on the state.
analyze_any_update ==
    /\ pc = "analyze"
    /\ \E flag \in BOOLEAN, count \in {replan_count, replan_count + 1} :
         /\ need_replan' = flag
         /\ replan_count' = count
         /\ replan_reason' = IF flag THEN <<"reasoning">> ELSE NoReason
    /\ pc' = route_after_analysis(need_replan')
    /\ entered' = entered \cup {"analyze"}
    /\ UNCHANGED <<cfgVars, messages, is_valid, rejection_reason, plan,
                   plan_approved, task_results, current_task_index,
                   final_response, suspended, execVars, next_id, plan_calls,
                   rejections, dispatched, analyze_llm_called, histVars,
                   auxVars>>

\* States in which the driver has just run execute and is about to run
\* analyse: any budget, any count within it, any mode and strategy, with
\* the results of up to one task.
EdgeInit ==
    /\ pc = "analyze"
    /\ mode \in Modes
    /\ max_replans \in 0..MaxReplans
    /\ replan_count \in 0..max_replans
    /\ messages = <<"human">>
    /\ is_valid = TRUE
    /\ rejection_reason = None
    /\ plan \in [tasks : {<<>>}, execution_strategy : {"parallel", "sequential"},
                 analysis : {"analysis", MsgNoAgents}]
    /\ plan_approved \in BOOLEAN
    /\ need_replan = FALSE
    /\ replan_reason = NoReason
    /\ task_results = <<>>
    /\ current_task_index = 0
    /\ final_response = NoResponse
    /\ suspended = FALSE
    /\ epc = "idle"
    /\ completed_tasks = <<>>
    /\ results = <<>>
    /\ idx = 0
    /\ ready_tasks = <<>>
    /\ gathered = <<>>
    /\ next_id = 0
    /\ plan_calls = 1
    /\ rejections = 0
    /\ entered = {"validate", "plan", "execute"}
    /\ dispatched = <<>>
    /\ prior_results = <<>>
    /\ analyze_llm_called = FALSE
    /\ validator_reply = "valid"
    /\ resume_value = None
    /\ approved_for = 0
    /\ settled = {}
    /\ discovery_reply = NoDiscovery
    /\ agent_registry \in {{}, Registry}
    /\ planner_reply = None
    /\ last_raw_tasks = <<>>
    /\ replan_context = NoContext
    /\ analyzer_reply = None
    /\ final_message = NoResponse
    /\ output = NoOutput

EdgeSpec == EdgeInit /\ [][analyze_any_update]_vars

\* Runs in which the control plane may also answer the search with a body
\* that is not JSON.
NextDiscovery == Next \/ discover_agents_raises

DiscoverySpec == Init /\ [][NextDiscovery]_vars

\* Every call of an LLM or a worker returns, so every step of the driver
\* that is enabled is eventually taken; only the user's answer at the
\* approval gate is not owed.
DriverStep ==
    \/ validate_request
    \/ reject_request
    \/ discover_agents
    \/ generate_plan
    \/ await_approval
    \/ resume_approval
    \/ execute_tasks
    \/ sequential_step
    \/ parallel_settle
    \/ execute_return
    \/ analyze_results
    \/ aggregate_results

FairSpec == Init /\ [][Next]_vars /\ WF_vars(DriverStep)

\* ------------------------------------------------------------- checks ----
TypeOK ==
    /\ pc \in {"validate", "reject", "plan", "approval", "execute", "analyze",
               "aggregate", "end", "cancelled", "failed"}
    /\ mode \in Modes
    /\ epc \in {"idle", "seq", "par"}
    /\ replan_count \in Nat
    /\ next_id <= MaxTasks
    /\ pc = "plan" => plan_calls < PlanCap

\* Every task record the run holds anywhere.
SeqElems(q) == {q[i] : i \in 1..Len(q)}

AllTasks ==
    SeqElems(plan.tasks) \cup SeqElems(task_results) \cup SeqElems(results)
    \cup SeqElems(completed_tasks) \cup SeqElems(ready_tasks)
    \cup SeqElems(prior_results)

DispatchedIds == {dispatched[i].id : i \in 1..Len(dispatched)}

\* C1: in every reachable state 0 <= replan_count <= max_replans, whatever
\* the LLM verdicts, worker outcomes and approval answers are.
C1_ReplanCountBounded == 0 <= replan_count /\ replan_count <= max_replans

C1_Witness == pc = "end" /\ max_replans > 0 /\ replan_count = max_replans

\* C2: when replan_count >= max_replans, analyse returns need_replan = false
\* without consulting the LLM, leaves replan_count unchanged and the run goes
\* on to aggregate; with max_replans = 0 this is every analyse.
C2_EscapeHatch ==
    [][(pc = "analyze" /\ replan_count >= max_replans)
         => /\ need_replan' = FALSE
            /\ replan_count' = replan_count
            /\ analyze_llm_called' = FALSE
            /\ pc' = "aggregate"]_vars

C2_Witness ==
    /\ pc = "aggregate"
    /\ max_replans = 0
    /\ need_replan = FALSE
    /\ ~analyze_llm_called

\* C3: in every mode the Planner is invoked at most max_replans + 1 times.
C3_PlannerCallsBounded == plan_calls <= max_replans + 1

C5_DispatchOnlyWhenDepsMet ==
    /\ \A i \in 1..Len(dispatched) : dispatched[i].deps_ok
    /\ \A t \in AllTasks :
         t.status = "completed"
            => \E i \in 1..Len(dispatched) :
                  dispatched[i].id = t.id /\ dispatched[i].deps_ok

C5_Witness ==
    \E t \in SeqElems(task_results), d \in SeqElems(task_results) :
        /\ t.status = "completed"
        /\ d.id \in t.dependencies
        /\ d.status = "completed"

\* C6: after a sequential Execute every task of the plan that was not yet
\* executed has been handled, and a task whose dependencies were not met is
\* failed with "Dependencies not met", was not dispatched, and is in the
\* task_results the run carries forward.
C6_SequentialDepFailureCarried ==
    (pc = "analyze" /\ plan.execution_strategy = "sequential")
       => /\ \A t \in SeqElems(plan.tasks) :
               ~DictHas(prior_results, t.id)
                  => \E r \in SeqElems(results) : r.id = t.id
          /\ \A r \in SeqElems(results) :
               r.error = ErrDeps
                  => /\ r.status = "failed"
                     /\ r.id \notin DispatchedIds
                     /\ r \in SeqElems(task_results)

\* C7: when Execute has returned, every task of the plan whose dependencies
\* were all completed (before the invocation or, in a sequential Execute,
\* earlier in it) has been dispatched and has settled, whatever happened to
\* the other tasks of the invocation.
C7_DepCompleted(d, k) ==
    \/ \E p \in SeqElems(prior_results) : p.id = d /\ p.status = "completed"
    \/ /\ plan.execution_strategy = "sequential"
       /\ \E j \in 1..(k - 1) : plan.tasks[j].id = d
       /\ \E r \in SeqElems(results) : r.id = d /\ r.status = "completed"

C7_FailureIsolation ==
    pc = "analyze"
       => \A k \in 1..Len(plan.tasks) :
            LET t == plan.tasks[k] IN
            (/\ ~DictHas(prior_results, t.id)
             /\ \A d \in t.dependencies : C7_DepCompleted(d, k))
               => /\ t.id \in DispatchedIds
                  /\ \E r \in SeqElems(results) :
                        r.id = t.id /\ r.status \in {"completed", "failed"}

C7_Witness ==
    /\ pc = "analyze"
    /\ \E i, j \in 1..Len(results) :
         /\ i < j
         /\ results[i].error = ErrRaised
         /\ results[j].status = "completed"

\* C8: for every task held anywhere, result is non-null iff its status is
\* completed and error is non-null iff its status is failed.
C8_ResultErrorMatchStatus ==
    \A t \in AllTasks :
        /\ (t.result # None) <=> (t.status = "completed")
        /\ (t.error # None) <=> (t.status = "failed")

C8_Witness ==
    \E s, t \in SeqElems(task_results) :
        /\ s.status = "completed" /\ s.result = AgentText
        /\ t.status = "failed" /\ t.error = ErrTimeout

\* C9: the task_results an Execute returns holds every prior entry unchanged
\* and every task that settled in the invocation.
C9_ExecuteOutputIsUnion ==
    pc = "analyze"
       => /\ \A p \in SeqElems(prior_results) : p \in SeqElems(task_results)
          /\ \A r \in SeqElems(results) :
               r.status \in {"completed", "failed"}
                  => r \in SeqElems(task_results)

\* C10: once the Validator has returned valid = false the run only goes to
\* reject and end: no other node is entered, no worker is invoked, plan
\* stays null and task_results stays empty.
C10_InvalidShortCircuits ==
    ("validate" \in entered /\ ~is_valid)
       => /\ pc \in {"reject", "end"}
          /\ entered \subseteq {"validate", "reject"}
          /\ dispatched = <<>>
          /\ plan = NoPlan
          /\ task_results = <<>>
          /\ plan_calls = 0

C10_Witness ==
    /\ pc = "end"
    /\ ~is_valid
    /\ entered = {"validate", "reject"}
    /\ final_response.kind = "rejection"

\* C11: when the validation LLM call raises, or its output is not a JSON
\* object or lacks is_valid, the Validator returns valid = false with the
\* reason "Validation error: <detail>" (letter case aside), and the run is
\* rejected and never planned.
C11_ValidatorFailClosed ==
    validator_reply \in {"error", "not_json", "not_object", "no_is_valid"}
       => /\ ~is_valid
          /\ rejection_reason = ErrValidation
          /\ pc \in {"reject", "end"}
          /\ plan_calls = 0

\* C12: in interactive mode a task is dispatched, and Execute is entered,
\* only for a plan for which an answer among yes, y, approve, approved
\* (case and surrounding blanks aside) has been given; until an answer
\* arrives the run stays suspended at the gate, and the approval of one plan
\* does not carry over to the next.
C12_NoDispatchBeforeApproval ==
    [][mode = "interactive"
         => /\ (dispatched' # dispatched \/ pc' = "execute" \/ epc' # "idle")
                  => approved_for' = plan_calls'
            /\ approved_for' # approved_for
                  => /\ resume_value \in {"yes", " Approved "}
                     /\ approved_for' = plan_calls
            /\ (suspended /\ resume_value = None)
                  => /\ suspended' /\ pc' = "approval"
                     /\ dispatched' = dispatched]_vars

C12_Witness ==
    /\ mode = "interactive"
    /\ plan_calls = 2
    /\ approved_for = 2
    /\ replan_count = 1
    /\ \E i \in 1..Len(dispatched) : dispatched[i].id \in {plan.tasks[j].id : j \in 1..Len(plan.tasks)}

\* C13 as stated: on resume, an approving answer gives approved and Execute;
\* a rejecting answer gives not approved, the reason "User rejected the
\* plan" and Plan; any other answer gives not approved, the answer itself as
\* the reason, and Plan.
C13_AnswerDeterminesOutcome ==
    [][(pc = "approval" /\ suspended /\ resume_value # None)
         => /\ resume_value \in {"yes", " Approved "}
                  => plan_approved' /\ pc' = "execute"
            /\ resume_value \in {"no", " N "}
                  => /\ ~plan_approved' /\ pc' = "plan"
                     /\ replan_reason' = <<"User rejected the plan">>
            /\ resume_value \in {"use two agents"}
                  => /\ ~plan_approved' /\ pc' = "plan"
                     /\ replan_reason' = <<resume_value>>]_vars

\* C13 amended: as above, but for any other answer the reason is the text
\* "User requested modifications: " followed by the answer.
C13_AnswerDeterminesOutcomeAmended ==
    [][(pc = "approval" /\ suspended /\ resume_value # None)
         => /\ resume_value \in {"yes", " Approved "}
                  => plan_approved' /\ pc' = "execute"
            /\ resume_value \in {"no", " N "}
                  => /\ ~plan_approved' /\ pc' = "plan"
                     /\ replan_reason' = <<"User rejected the plan">>
            /\ resume_value \in {"use two agents"}
                  => /\ ~plan_approved' /\ pc' = "plan"
                     /\ replan_reason' =
                           <<"User requested modifications: ", resume_value>>]_vars

C13_Witness ==
    /\ pc = "plan"
    /\ ~plan_approved
    /\ replan_reason = <<"User requested modifications: ", "use two agents">>
    /\ messages[Len(messages)] = "plan to be revised"

\* C14: an interactive run whose first plan is rejected and whose second
\* plan is approved, and that then goes through one Execute to its final
\* aggregation, has planned twice and ends with replan_count = 1.
C14_RejectionCountsAsReplan ==
    (/\ pc = "end"
     /\ mode = "interactive"
     /\ Len(messages) = 4
     /\ messages[2] = "plan rejected"
     /\ messages[3] = "plan approved")
       => /\ plan_calls = 2
          /\ "aggregate" \in entered
          /\ replan_count = 1

\* C15: in auto mode every step out of plan goes to execute, the approval
\* node is never entered and the run is never suspended.
C15_AutoSkipsApproval ==
    [][mode = "auto"
         => /\ (pc = "plan" /\ pc' # "plan") => pc' = "execute"
            /\ pc' # "approval"
            /\ "approval" \notin entered'
            /\ ~suspended']_vars

C15_Witness ==
    /\ mode = "auto"
    /\ pc = "execute"
    /\ plan_calls = 2
    /\ Len(plan.tasks) > 0

C17_ExactlyOneArtifact ==
    pc = "end"
       => /\ final_response # NoResponse
          /\ \/ /\ "reject" \in entered /\ "aggregate" \notin entered
                /\ final_response.kind = "rejection"
             \/ /\ "aggregate" \in entered /\ "reject" \notin entered
                /\ final_response.kind \in {"llm", "fallback"}

C17_Witness ==
    /\ pc = "end"
    /\ "aggregate" \in entered
    /\ final_response.kind = "fallback"

\* C18: when the run has been cancelled during Execute, every task that was
\* in flight is held as failed with the error "cancelled".
C18_CancelSettlesInFlight ==
    pc = "cancelled"
       => \A s \in settled :
            s.outcome = "cancelled"
               => \E r \in AllTasks :
                     r.id = s.id /\ r.status = "failed" /\ r.error = "cancelled"

\* Outcomes of a dispatch that are failures _invoke_agent reports itself.
C19_Failing == {"timeout", "http_error", "json_error", "error"}

\* C19: a dispatch that met a timeout, an HTTP error, a JSON error or an
\* error reply leaves its task failed with result null and an error (for a
\* timeout the text with "timed out"), a dispatch of the same Execute that
\* got a reply leaves its task completed, and once Execute has returned the
\* run is at analyse with these tasks in task_results.
C19_WorkerErrorsContained ==
    \A s \in settled :
        s.outcome \in C19_Failing \cup {"success"}
           => \/ epc = "par"
              \/ \E r \in SeqElems(results) \cup SeqElems(task_results) :
                    /\ r.id = s.id
                    /\ s.outcome \in C19_Failing
                          => /\ r.status = "failed"
                             /\ r.result = None
                             /\ r.error # None
                             /\ s.outcome = "timeout" => r.error = ErrTimeout
                    /\ s.outcome = "success" => r.status = "completed"
                    /\ pc \notin {"execute", "cancelled"}
                          => r \in SeqElems(task_results)

C19_Witness ==
    /\ pc = "analyze"
    /\ Len(results) = 2
    /\ \E s \in settled : s.outcome = "timeout" /\ s.id = results[1].id
    /\ \E s \in settled : s.outcome = "success" /\ s.id = results[2].id
    /\ results[1].error = ErrTimeout
    /\ results[2].status = "completed"

\* C20: every dependency id of every task of the plan is the id of another
\* task of that same plan.
C20_DepsWithinPlan ==
    \A i \in 1..Len(plan.tasks) :
        \A d \in plan.tasks[i].dependencies :
            \E j \in 1..Len(plan.tasks) : j # i /\ plan.tasks[j].id = d

C23_AnalyserFailForward ==
    [][(pc = "analyze"
          /\ analyzer_reply' \in AnalyzerFailures \cup {"no_field"})
         => /\ need_replan' = FALSE
            /\ replan_count' = replan_count
            /\ pc' = "aggregate"]_vars

C23_Witness ==
    /\ pc = "aggregate"
    /\ analyzer_reply = "no_field"
    /\ replan_count < max_replans
    /\ Len(task_results) > 0

\* C24: a run that went through aggregate and ended has an artifact; the
\* fallback artifact has one section per task of task_results, in order,
\* with the task's description and its result if it completed, else its
\* error; and a run at aggregate gets to end.
C24_AggregatorFallback ==
    /\ []((pc = "end" /\ "aggregate" \in entered)
            => /\ final_response.kind \in {"llm", "fallback"}
               /\ final_response.kind = "fallback"
                     => /\ Len(final_response.body) = Len(task_results)
                        /\ \A i \in 1..Len(task_results) :
                             /\ final_response.body[i].id = task_results[i].id
                             /\ final_response.body[i].text =
                                   IF task_results[i].status = "completed"
                                   THEN task_results[i].result
                                   ELSE task_results[i].error)
    /\ (pc = "aggregate") ~> (pc = "end")

C24_Witness ==
    /\ pc = "end"
    /\ final_response.kind = "fallback"
    /\ Len(task_results) = 2
    /\ task_results[1].status = "failed"
    /\ task_results[2].status = "completed"

\* C25: when a task of task_results has failed, the artifact of aggregate
\* ends with a footer whose counts are the number of failed tasks and the
\* number of tasks of task_results.
C25_FooterCountsFailures ==
    (pc = "end" /\ "aggregate" \in entered
       /\ CountStatus(task_results, "failed") > 0)
      => /\ Len(final_response.footer) = 3
         /\ final_response.footer[2] = CountStatus(task_results, "failed")
         /\ final_response.footer[3] = Len(task_results)

\* The artifact holds the text.
ArtifactReports(r, text) ==
    \/ r.reason = text
    \/ \E i \in 1..Len(r.body) : r.body[i].text = text

\* C26: a plan made with an empty registry has zero tasks and the analysis
\* that no agents are available, the LLM was not called for it, no worker
\* was invoked for it, and the artifact of a run that ends with it reports
\* that no agents are available.
C26_NoAgentsOutcome ==
    plan.analysis = MsgNoAgents
      => /\ plan.tasks = <<>>
         /\ planner_reply = None
         /\ plan_calls = 1 => dispatched = <<>>
         /\ pc = "end" => ArtifactReports(final_response, MsgNoAgents)

\* C27: discovery never fails the run: when the control plane cannot be
\* reached the registry is empty, and otherwise it holds every listed
\* worker whose card could be fetched.
C27_DiscoveryNeverFailsRun ==
    /\ pc # "failed"
    /\ discovery_reply.kind = "unreachable" => agent_registry = {}
    /\ discovery_reply.kind = "list"
          => agent_registry =
                {discovery_reply.assistants[i].assistant_id : i \in
                    {j \in 1..Len(discovery_reply.assistants) :
                        /\ discovery_reply.assistants[j].graph_id # "router"
                        /\ discovery_reply.assistants[j].card = "ok"}}

\* C28: the step of reject or aggregate that ends the run stores in
\* final_response the content of the one assistant message it appends to
\* the log, and leaves the messages before it as they are.
C28_ResponseIsLastMessage ==
    [][(pc \in {"reject", "aggregate"} /\ pc' = "end")
         => /\ final_response' # NoResponse
            /\ final_response' = final_message'
            /\ messages' = Append(messages, final_message'.kind)]_vars

C28_Witness ==
    /\ pc = "end"
    /\ mode = "review"
    /\ final_response.kind = "llm"
    /\ final_response.footer # <<>>
    /\ final_message = final_response
    /\ Len(messages) = 3

\* C29: in the output, agents_used is present iff a task of task_results
\* completed and is then the names of the completed tasks, each once, in
\* sorted order; execution_strategy is present iff there is a plan and is
\* then the plan's strategy.
C29_OutputMetadata ==
    pc = "end"
      => LET done == {task_results[i].agent_name : i \in
                        {j \in 1..Len(task_results) :
                            task_results[j].status = "completed"}}
             used == output.agents_used
         IN  /\ output.has_agents_used <=> done # {}
             /\ {used[i] : i \in 1..Len(used)} = done
             /\ Len(used) = Cardinality(done)
             /\ \A i, j \in 1..Len(used) : i < j => Rank(used[i]) < Rank(used[j])
             /\ output.has_execution_strategy <=> plan # NoPlan
             /\ output.has_execution_strategy
                   => output.execution_strategy = plan.execution_strategy

C29_Witness ==
    /\ pc = "end"
    /\ Len(task_results) = 3
    /\ task_results[1] = [agent_name |-> "Zeta", status |-> "completed"]
    /\ task_results[2] = [agent_name |-> "Coda", status |-> "completed"]
    /\ task_results[3] = [agent_name |-> "Zeta", status |-> "completed"]
    /\ output.agents_used = <<"Coda", "Zeta">>
    /\ output.execution_strategy = "parallel"

C31_DriverEnforcesReplanBound ==
    [][(pc = "analyze" /\ replan_count >= max_replans) => pc' = "aggregate"]_vars

\* C32: every task of a plan the Planner returns names an agent of the
\* registry used for that planning call; the tasks the LLM proposed for an
\* unknown agent are dropped, the others are kept in their order, and the
\* plan is still the LLM's plan, not the failure plan.  (agent_registry is
\* the snapshot of the last planning call until the next search answers.)
C32_Proposal(t) == [agent_id |-> t.agent_id, dependencies |-> t.dependencies]

C32_KnownProposal(raw) == raw.agent_id \in agent_registry

C32_UnknownAgentDropped ==
    (planner_reply = "ok" /\ discovery_reply = NoDiscovery) =>
        /\ \A i \in 1..Len(plan.tasks) : plan.tasks[i].agent_id \in agent_registry
        /\ [i \in 1..Len(plan.tasks) |-> C32_Proposal(plan.tasks[i])]
              = SelectSeq(last_raw_tasks, C32_KnownProposal)
        /\ plan.analysis = "analysis"

C32_Witness ==
    /\ planner_reply = "ok"
    /\ Len(last_raw_tasks) = 2
    /\ last_raw_tasks[1].agent_id = GhostAgent
    /\ last_raw_tasks[2].agent_id \in agent_registry
    /\ Len(plan.tasks) = 1
    /\ pc = "execute"

\* Ids of a list of tasks, in the order of the list.
C33_Ids(q) == [i \in 1..Len(q) |-> q[i].id]

\* The ready frontier of the current plan as of the start of the current
\* Execute: the tasks with no record in the task_results Execute started
\* from whose dependencies all have a completed record there.
C33_Frontier ==
    LET Executed(id) == \E i \in 1..Len(prior_results) : prior_results[i].id = id
        Completed(id) == \E i \in 1..Len(prior_results) :
                            /\ prior_results[i].id = id
                            /\ prior_results[i].status = "completed"
        OnFrontier(t) == /\ ~Executed(t.id)
                         /\ \A d \in t.dependencies : Completed(d)
    IN SelectSeq(plan.tasks, OnFrontier)

\* C33: a parallel Execute computes the ready frontier once, from the map
\* of completed tasks as it is when Execute starts: it dispatches exactly
\* the tasks not yet executed whose dependencies are all completed by then,
\* dispatches nothing later in the same invocation (not even a task whose
\* dependency completed in it), and leaves the other tasks untouched: they
\* get no record, failed or otherwise.
C33_FrontierComputedOnce ==
    /\ epc = "par" =>
         LET n == Len(ready_tasks) m == Len(dispatched) IN
         /\ ready_tasks = C33_Frontier
         /\ m >= n
         /\ [i \in 1..n |-> dispatched[m - n + i].id] = C33_Ids(C33_Frontier)
    /\ (pc = "analyze" /\ plan.execution_strategy = "parallel") =>
         /\ C33_Ids(results) = C33_Ids(C33_Frontier)
         /\ \A i \in 1..Len(plan.tasks) :
              LET id == plan.tasks[i].id IN
              (\E j \in 1..Len(task_results) : task_results[j].id = id)
                 => \/ \E j \in 1..Len(prior_results) : prior_results[j].id = id
                    \/ \E j \in 1..Len(results) : results[j].id = id

C33_Witness ==
    /\ pc = "analyze"
    /\ plan.execution_strategy = "parallel"
    /\ Len(plan.tasks) = 2
    /\ plan.tasks[2].dependencies = {plan.tasks[1].id}
    /\ Len(task_results) = 1
    /\ task_results[1].id = plan.tasks[1].id
    /\ task_results[1].status = "completed"
    /\ Len(dispatched) = 1

\* Whether dependency d has a completed record among the task_results that
\* Execute started from or among the first k results of this invocation.
C34_Seen(d, k) ==
    \/ \E j \in 1..Len(prior_results) :
         prior_results[j].id = d /\ prior_results[j].status = "completed"
    \/ \E j \in 1..k : results[j].id = d /\ results[j].status = "completed"

\* The tasks of the plan with no record in the task_results Execute
\* started from.
C34_NotYetExecuted ==
    LET Todo(t) == ~\E j \in 1..Len(prior_results) : prior_results[j].id = t.id
    IN SelectSeq(plan.tasks, Todo)

\* Results of this invocation that come from a call of the worker.
C34_Invoked ==
    LET Called(r) == r.error # ErrDeps
    IN SelectSeq(results, Called)

C35_BatchReadsOnly ==
    [][/\ epc = "par" =>
            /\ task_results = prior_results
            /\ \A i \in 1..Len(completed_tasks) :
                 /\ \E j \in 1..Len(prior_results) :
                      completed_tasks[i] = prior_results[j]
                 /\ \A j \in 1..Len(ready_tasks) :
                      completed_tasks[i].id # ready_tasks[j].id
            /\ \A j \in 1..Len(ready_tasks) :
                 dispatched[Len(dispatched) - Len(ready_tasks) + j].deps_ok
       /\ (epc = "par" /\ pc' = "analyze") =>
            \A i \in 1..Len(gathered) :
                /\ gathered[i] # "pending"
                /\ \E r \in settled : r.id = ready_tasks[i].id
       /\ (epc = "par" /\ pc' # "analyze") =>
            /\ task_results' = task_results
            /\ completed_tasks' = completed_tasks]_vars

C35_Witness ==
    /\ pc = "analyze"
    /\ plan.execution_strategy = "parallel"
    /\ Len(results) = 2
    /\ Len(task_results) = 2
    /\ results[1].status = "completed"
    /\ results[2].status = "failed"

\* C36: Execute on a plan with no task is a no-op under both strategies:
\* no worker is invoked and the task_results it returns are those it
\* started from.
C36_EmptyPlanNoOp ==
    [][(pc = "execute" /\ plan # NoPlan /\ plan.tasks = <<>>) =>
          /\ dispatched' = dispatched
          /\ settled' = settled
          /\ task_results' = task_results
          /\ pc' \in {"execute", "analyze"}]_vars

C36_Witness ==
    /\ pc = "analyze"
    /\ plan # NoPlan
    /\ plan.tasks = <<>>
    /\ plan_calls = 2
    /\ Len(task_results) > 0
    /\ task_results = prior_results

\* Whether a line of the planner's input tells status, result and error of
\* the task.
C37_Tells(line, task) ==
    /\ {"status", "result", "error"} \subseteq DOMAIN line
    /\ line.status = task.status
    /\ line.result = task.result
    /\ line.error = task.error

\* C37: whenever the planning LLM is called on a replan transition (from
\* analyse with need_replan, or from the approval gate after a rejection
\* or a request for modifications) its input holds the replan reason that
\* was set and the previous tasks with their statuses, results and errors.
C37_ReplanInputComplete ==
    [][(pc = "plan" /\ discovery_reply # NoDiscovery /\ need_replan
            /\ planner_reply' # None) =>
          /\ replan_context'.included
          /\ replan_context'.reason = replan_reason
          /\ Len(replan_context'.previous) = Len(task_results)
          /\ \A i \in 1..Len(task_results) :
               C37_Tells(replan_context'.previous[i], task_results[i])]_vars

\* C38: across the whole run each task id is dispatched to a worker at most
\* once: no two dispatches carry the same id, so a task with a record in
\* task_results is not dispatched again by a later Execute and no task is
\* dispatched twice by one invocation.
C38_DispatchedOnce ==
    \A i, j \in 1..Len(dispatched) :
        dispatched[i].id = dispatched[j].id => i = j

C38_Witness ==
    /\ plan_calls = 2
    /\ pc = "analyze"
    /\ Len(dispatched) = 3
    /\ Len(prior_results) > 0
    /\ \E i \in 1..Len(plan.tasks) :
         \E j \in 1..Len(prior_results) : plan.tasks[i].dependencies = {prior_results[j].id}

\* C39: whenever the driver is in approval, execute, analyse or aggregate
\* the plan is set: every exit of the Planner, the no-agents and failure
\* exits included, sets a plan and no later step resets it.
C39_PlanSet ==
    pc \in {"approval", "execute", "analyze", "aggregate"} => plan # NoPlan

C39_Witness ==
    /\ pc = "aggregate"
    /\ plan.analysis = MsgNoAgents
    /\ plan.tasks = <<>>
    /\ agent_registry = {}

\* C40: the router never delegates to itself: the registry discovery builds
\* holds no assistant whose graph is "router", so no task of any plan has
\* the router as its agent and no Execute dispatches to it.
C40_NoSelfDelegation ==
    /\ RouterId \notin agent_registry
    /\ \A t \in AllTasks : t.agent_id # RouterId

C40_Witness ==
    /\ pc = "plan"
    /\ discovery_reply.kind = "list"
    /\ \E i \in 1..Len(discovery_reply.assistants) :
         discovery_reply.assistants[i] = RouterAssistant
    /\ agent_registry # {}
    /\ planner_reply = "ok"
    /\ Len(last_raw_tasks) = 2
    /\ last_raw_tasks[1].agent_id = RouterId
    /\ Len(plan.tasks) = 1
    /\ plan.tasks[1].agent_id \in agent_registry
====
